---- MODULE Spec2Model ----
(***************************************************************************)
(* Model of normalobjects_langchain.py: the ToolUsageTracker callback      *)
(* handler (usage_count, tool_sequences, on_tool_start, get_statistics)    *)
(* and the four tool bodies.                                               *)
(*                                                                         *)
(* Python values are modelled as follows.                                  *)
(*   dict  : a sequence of [k, v] records in insertion order               *)
(*   list  : a sequence                                                    *)
(*   str   : a TLA+ string where only identity matters (tool names,        *)
(*           exception names); a sequence of one-character strings where   *)
(*           the code looks inside it (lower(), `in`, f-strings)           *)
(*   None  : the string "None"                                             *)
(* A reference to one of the tracker's two mutable objects is the name of  *)
(* the attribute that owns it; Deref reads the object behind a reference.  *)
(***************************************************************************)
EXTENDS Integers, Sequences, FiniteSets, TLC

VARIABLES
    usage_count,     \* self.usage_count      (dict tool name -> int)
    tool_sequences,  \* self.tool_sequences   (list of tool names)
    stats,           \* <<>> or <<d>>: the dict the last get_statistics returned
    events,          \* tool_name of every on_tool_start call so far, in call order
    op,              \* name of the function that ran last ("init" before any)
    text,            \* primary text argument of the last tool-body call
    level,           \* creativity_level of the last cast_interdimensional_spell call
    result,          \* return value of the last tool-body call (a str)
    raised,          \* exception the last call ended in, "none" when it returned
    pc,              \* per caller thread: position inside on_tool_start
    tname,           \* per caller thread: local tool_name
    tmp,             \* per caller thread: value read by usage_count[tool_name] += 1
    rpc,             \* reader thread: position inside get_statistics
    racc             \* reader thread: dict entries evaluated so far

vars == <<usage_count, tool_sequences, stats, events, op, text, level, result,
          raised, pc, tname, tmp, rpc, racc>>

trackerVars == <<usage_count, tool_sequences>>
toolVars == <<text, level, result>>
threadVars == <<pc, tname, tmp, rpc, racc>>

-----------------------------------------------------------------------------
(* Bounds of the model *)

MaxEvents == 3       \* on_tool_start calls in a sequential run
MaxConcEvents == 3   \* on_tool_start calls in a concurrent run
NumThreads == 2      \* concurrent callers of on_tool_start
MaxPieces == 2       \* text arguments are concatenations of at most this many pieces

Threads == 1..NumThreads

None == "None"

-----------------------------------------------------------------------------
(* Python dict, insertion ordered *)

DictKeys(d) == {d[i].k : i \in DOMAIN d}

DictHas(d, key) == key \in DictKeys(d)

DictGet(d, key) == d[CHOOSE i \in DOMAIN d : d[i].k = key].v

DictGetDefault(d, key, default) == IF DictHas(d, key) THEN DictGet(d, key) ELSE default

DictSet(d, key, val) ==
    IF DictHas(d, key)
    THEN [i \in DOMAIN d |-> IF d[i].k = key THEN [k |-> key, v |-> val] ELSE d[i]]
    ELSE Append(d, [k |-> key, v |-> val])

\* sum(d.values())
RECURSIVE SumValues(_)
SumValues(d) == IF d = <<>> THEN 0 ELSE d[1].v + SumValues(Tail(d))

\* max(d.items(), key=lambda x: x[1]): the running best is replaced only by a
\* strictly greater key, so the first maximal item in iteration order wins
MaxStepLast(best, item) == IF item.v >= best.v THEN item ELSE best

MaxStep(best, item) == IF item.v > best.v THEN item ELSE best

RECURSIVE MaxFrom(_, _)
MaxFrom(best, items) ==
    IF items = <<>> THEN best ELSE MaxFrom(MaxStep(best, Head(items)), Tail(items))

MaxItem(d) == MaxFrom(Head(d), Tail(d))

-----------------------------------------------------------------------------
(* The tool list and the tracker *)

\* tools = [consult_demogorgon, check_hawkins_records, ...]: the names, in order
ToolNames == <<"consult_demogorgon", "check_hawkins_records",
               "cast_interdimensional_spell", "gather_party_wisdom">>

ToolNameSet == {ToolNames[i] : i \in DOMAIN ToolNames}

\* {tool.name: 0 for tool in tools}
InitUsageCount == [i \in DOMAIN ToolNames |-> [k |-> ToolNames[i], v |-> 0]]

\* the `serialized` dicts a caller may pass: one per tool name, one with a name
\* that is no tool, and one without a "name" entry
SerializedInputs ==
    {<<[k |-> "name", v |-> n]>> : n \in ToolNameSet \cup {"z"}} \cup {<<>>}

\* tool_name = serialized.get("name", "unknown")
ToolNameOf(serialized) == DictGetDefault(serialized, "name", "unknown")

\* if tool_name in self.usage_count
IsTrackedAlways(counts, name) == TRUE

IsTracked(counts, name) == DictHas(counts, name)

\* self.usage_count[tool_name] += 1, split into its read and its write; the
\* subscript raises KeyError when the key is missing
ReadCount(counts, name) == DictGet(counts, name)

IncrementedTwice(old) == old + 2

Incremented(old) == old + 1

\* self.tool_sequences.append(tool_name)
Appended(seq, name) == Append(seq, name)

RefUsageCount == "self.usage_count"
RefToolSequences == "self.tool_sequences"

Deref(ref) == IF ref = RefUsageCount THEN usage_count ELSE tool_sequences

\* the expressions of the dict display in get_statistics
TotalToolCallsLen(counts) == Len(counts)

TotalToolCalls(counts) == SumValues(counts)

MostUsed(counts) == IF counts # <<>> THEN MaxItem(counts).k ELSE None

StatsDict(total, most) ==
    [total_tool_calls |-> total,
     tool_counts      |-> RefUsageCount,
     most_used        |-> most,
     tool_sequences   |-> RefToolSequences]

-----------------------------------------------------------------------------
Init ==
    /\ usage_count = InitUsageCount
    /\ tool_sequences = <<>>
    /\ stats = <<>>
    /\ events = <<>>
    /\ op = "init"
    /\ text = <<>>
    /\ level = "medium"
    /\ result = <<>>
    /\ raised = "none"
    /\ pc = [t \in Threads |-> "idle"]
    /\ tname = [t \in Threads |-> None]
    /\ tmp = [t \in Threads |-> 0]
    /\ rpc = "idle"
    /\ racc = [total |-> 0, most |-> None]

(* ToolUsageTracker.on_tool_start, run from call to return *)
OnToolStart(serialized) ==
    LET tool_name == ToolNameOf(serialized) IN
    /\ Len(events) < MaxEvents
    /\ events' = Append(events, tool_name)
    /\ op' = "on_tool_start"
    /\ IF IsTracked(usage_count, tool_name)
       THEN IF DictHas(usage_count, tool_name)
            THEN /\ usage_count' =
                       DictSet(usage_count, tool_name,
                               Incremented(ReadCount(usage_count, tool_name)))
                 /\ tool_sequences' = Appended(tool_sequences, tool_name)
                 /\ raised' = "none"
            ELSE /\ raised' = "KeyError"
                 /\ UNCHANGED trackerVars
       ELSE /\ raised' = "none"
            /\ UNCHANGED trackerVars
    /\ UNCHANGED <<stats, toolVars, threadVars>>

(* ToolUsageTracker.get_statistics, run from call to return *)
GetStatistics ==
    /\ stats' = <<StatsDict(TotalToolCalls(usage_count), MostUsed(usage_count))>>
    /\ op' = "get_statistics"
    /\ raised' = "none"
    /\ UNCHANGED <<trackerVars, events, toolVars, threadVars>>

Next ==
    \/ \E serialized \in SerializedInputs : OnToolStart(serialized)
    \/ GetStatistics

Spec == Init /\ [][Next]_vars

-----------------------------------------------------------------------------
(* One tracker shared by several threads.  The class holds no lock, so a    *)
(* thread may be preempted between any two reads or writes of the shared    *)
(* dict and list; each action below is one such read or write.              *)

\* thread t enters on_tool_start: tool_name = serialized.get("name", "unknown")
TsCall(t, serialized) ==
    /\ pc[t] = "idle"
    /\ Len(events) < MaxConcEvents
    /\ tname' = [tname EXCEPT ![t] = ToolNameOf(serialized)]
    /\ events' = Append(events, ToolNameOf(serialized))
    /\ pc' = [pc EXCEPT ![t] = "check"]
    /\ UNCHANGED <<trackerVars, stats, op, toolVars, raised, tmp, rpc, racc>>

\* if tool_name in self.usage_count; an untracked name returns at once
TsCheck(t) ==
    /\ pc[t] = "check"
    /\ IF IsTracked(usage_count, tname[t])
       THEN /\ pc' = [pc EXCEPT ![t] = "read"]
            /\ UNCHANGED op
       ELSE /\ pc' = [pc EXCEPT ![t] = "idle"]
            /\ op' = "on_tool_start"
    /\ UNCHANGED <<trackerVars, stats, events, toolVars, raised, tname, tmp, rpc, racc>>

\* the read half of self.usage_count[tool_name] += 1
TsRead(t) ==
    /\ pc[t] = "read"
    /\ IF DictHas(usage_count, tname[t])
       THEN /\ tmp' = [tmp EXCEPT ![t] = ReadCount(usage_count, tname[t])]
            /\ pc' = [pc EXCEPT ![t] = "write"]
            /\ UNCHANGED <<raised, op>>
       ELSE /\ raised' = "KeyError"
            /\ op' = "on_tool_start"
            /\ pc' = [pc EXCEPT ![t] = "idle"]
            /\ UNCHANGED tmp
    /\ UNCHANGED <<trackerVars, stats, events, toolVars, tname, rpc, racc>>

\* the write half of self.usage_count[tool_name] += 1
TsWrite(t) ==
    /\ pc[t] = "write"
    /\ usage_count' = DictSet(usage_count, tname[t], Incremented(tmp[t]))
    /\ pc' = [pc EXCEPT ![t] = "append"]
    /\ UNCHANGED <<tool_sequences, stats, events, op, toolVars, raised, tname, tmp,
                   rpc, racc>>

\* self.tool_sequences.append(tool_name), then return
TsAppend(t) ==
    /\ pc[t] = "append"
    /\ tool_sequences' = Appended(tool_sequences, tname[t])
    /\ pc' = [pc EXCEPT ![t] = "idle"]
    /\ op' = "on_tool_start"
    /\ UNCHANGED <<usage_count, stats, events, toolVars, raised, tname, tmp, rpc, racc>>

\* the reader enters get_statistics and evaluates sum(self.usage_count.values())
GsSum ==
    /\ rpc = "idle"
    /\ racc' = [racc EXCEPT !.total = TotalToolCalls(usage_count)]
    /\ rpc' = "max"
    /\ UNCHANGED <<trackerVars, stats, events, op, toolVars, raised, pc, tname, tmp>>

\* the reader evaluates max(self.usage_count.items(), ...)[0]
GsMax ==
    /\ rpc = "max"
    /\ racc' = [racc EXCEPT !.most = MostUsed(usage_count)]
    /\ rpc' = "return"
    /\ UNCHANGED <<trackerVars, stats, events, op, toolVars, raised, pc, tname, tmp>>

\* the reader builds the dict and returns it
GsReturn ==
    /\ rpc = "return"
    /\ stats' = <<StatsDict(racc.total, racc.most)>>
    /\ rpc' = "idle"
    /\ op' = "get_statistics"
    /\ UNCHANGED <<trackerVars, events, toolVars, raised, pc, tname, tmp, racc>>

NextConc ==
    \/ \E t \in Threads, serialized \in SerializedInputs : TsCall(t, serialized)
    \/ \E t \in Threads : TsCheck(t)
    \/ \E t \in Threads : TsRead(t)
    \/ \E t \in Threads : TsWrite(t)
    \/ \E t \in Threads : TsAppend(t)
    \/ GsSum
    \/ GsMax
    \/ GsReturn

SpecConc == Init /\ [][NextConc]_vars

-----------------------------------------------------------------------------
(* Python str as a sequence of characters *)

UpperLetters == <<"A","B","C","D","E","F","G","H","I","J","K","L","M",
                  "N","O","P","Q","R","S","T","U","V","W","X","Y","Z">>

LowerLetters == <<"a","b","c","d","e","f","g","h","i","j","k","l","m",
                  "n","o","p","q","r","s","t","u","v","w","x","y","z">>

\* str.lower() on one character, and on a str
LowerCharIdentity(c) == c

LowerChar(c) ==
    IF \E i \in DOMAIN UpperLetters : UpperLetters[i] = c
    THEN LowerLetters[CHOOSE i \in DOMAIN UpperLetters : UpperLetters[i] = c]
    ELSE c

StrLower(s) == [i \in DOMAIN s |-> LowerChar(s[i])]

\* needle in hay
StrIn(needle, hay) ==
    \E i \in 0..(Len(hay) - Len(needle)) : SubSeq(hay, i + 1, i + Len(needle)) = needle

\* sep.join(parts)
RECURSIVE StrJoin(_, _)
StrJoin(sep, parts) ==
    IF parts = <<>> THEN <<>>
    ELSE IF Len(parts) = 1 THEN parts[1]
    ELSE parts[1] \o sep \o StrJoin(sep, Tail(parts))

-----------------------------------------------------------------------------
(* The string literals of the tool bodies *)

KeyPortal == <<"p","o","r","t","a","l">>

KeyMonsters == <<"m","o","n","s","t","e","r","s">>

KeyPsychics == <<"p","s","y","c","h","i","c","s">>

KeyElectricity == <<"e","l","e","c","t","r","i","c","i","t","y">>

RecordPortal ==
    <<"R","e","c","o","r","d","s"," ","s","h","o","w"," ","p","o","r","t","a","l","s"," ",
      "h","a","v","e"," ","o","p","e","n","e","d"," ","o","n"," ","v","a","r","i","o","u",
      "s"," ","d","a","t","e","s"," ","w","i","t","h"," ","n","o"," ","c","l","e","a","r",
      " ","p","a","t","t","e","r","n",".">>

RecordMonsters ==
    <<"H","i","s","t","o","r","i","c","a","l"," ","r","e","c","o","r","d","s"," ","i","n",
      "d","i","c","a","t","e"," ","c","r","e","a","t","u","r","e","s"," ","f","r","o","m",
      " ","t","h","e"," ","U","p","s","i","d","e"," ","D","o","w","n"," ","b","e","h","a",
      "v","e"," ","d","i","f","f","e","r","e","n","t","l","y"," ","b","a","s","e","d"," ",
      "o","n"," ","e","n","v","i","r","o","n","m","e","n","t","a","l"," ","f","a","c","t",
      "o","r","s",".">>

RecordPsychics ==
    <<"R","e","c","o","r","d","s"," ","s","h","o","w"," ","t","h","a","t"," ","p","s","y",
      "c","h","i","c"," ","a","b","i","l","i","t","i","e","s"," ","v","a","r","y"," ","g",
      "r","e","a","t","l","y",".">>

RecordElectricity ==
    <<"H","a","w","k","i","n","s"," ","h","a","s"," ","a"," ","h","i","s","t","o","r","y",
      " ","o","f"," ","e","l","e","c","t","r","i","c","a","l"," ","a","n","o","m","a","l",
      "i","e","s",".">>

\* records = {...} in check_hawkins_records
records ==
    <<[k |-> KeyPortal, v |-> RecordPortal],
      [k |-> KeyMonsters, v |-> RecordMonsters],
      [k |-> KeyPsychics, v |-> RecordPsychics],
      [k |-> KeyElectricity, v |-> RecordElectricity]>>

RecordsFallbackHead ==
    <<"R","e","c","o","r","d","s"," ","d","o","n","'","t"," ","c","o","n","t","a","i","n",
      " ","s","p","e","c","i","f","i","c"," ","i","n","f","o","r","m","a","t","i","o","n",
      " ","a","b","o","u","t"," ","'">>

RecordsFallbackTail ==
    <<"'",","," ","b","u","t"," ","m","a","n","y"," ","u","n","e","x","p","l","a","i","n",
      "e","d"," ","e","v","e","n","t","s"," ","h","a","v","e"," ","o","c","c","u","r","r",
      "e","d"," ","i","n"," ","H","a","w","k","i","n","s",".">>

PartyPortal ==
    <<"M","i","k","e",":"," ","'","P","o","r","t","a","l","s"," ","a","r","e"," ","u","n",
      "p","r","e","d","i","c","t","a","b","l","e","!","'"," ","D","u","s","t","i","n",":",
      " ","'","T","h","e","y"," ","f","o","l","l","o","w"," ","t","h","e"," ","M","i","n",
      "d"," ","F","l","a","y","e","r","'","s"," ","a","c","t","i","v","i","t","y",".","'">>

PartyMonsters ==
    <<"L","u","c","a","s",":"," ","'","D","e","m","o","g","o","r","g","o","n","s"," ","a",
      "r","e"," ","t","e","r","r","i","t","o","r","i","a","l",".","'"," ","W","i","l","l",
      ":"," ","'","T","h","e","y"," ","c","a","n"," ","s","e","n","s","e"," ","f","e","a",
      "r"," ","a","n","d"," ","s","t","r","o","n","g"," ","e","m","o","t","i","o","n","s",
      ".","'">>

PartyPsychics ==
    <<"M","i","k","e",":"," ","'","E","l","'","s"," ","p","o","w","e","r","s"," ","a","r",
      "e"," ","c","o","n","n","e","c","t","e","d"," ","t","o"," ","h","e","r"," ","e","m",
      "o","t","i","o","n","a","l"," ","s","t","a","t","e",".","'"," ","D","u","s","t","i",
      "n",":"," ","'","L","i","m","i","t","e","d"," ","b","y"," ","h","e","r"," ","e","n",
      "e","r","g","y",".","'">>

PartyElectricity ==
    <<"L","u","c","a","s",":"," ","'","T","h","e"," ","U","p","s","i","d","e"," ","D","o",
      "w","n"," ","i","n","t","e","r","f","e","r","e","s"," ","w","i","t","h"," ","e","l",
      "e","c","t","r","i","c","a","l"," ","s","y","s","t","e","m","s",".","'"," ","D","u",
      "s","t","i","n",":"," ","'","I","t","'","s"," ","l","i","k","e"," ","a"," ","f","e",
      "e","d","b","a","c","k"," ","l","o","o","p",".","'">>

\* party_responses = {...} in gather_party_wisdom
party_responses ==
    <<[k |-> KeyPortal, v |-> PartyPortal],
      [k |-> KeyMonsters, v |-> PartyMonsters],
      [k |-> KeyPsychics, v |-> PartyPsychics],
      [k |-> KeyElectricity, v |-> PartyElectricity]>>

PartyFallback ==
    <<"T","h","e"," ","p","a","r","t","y"," ","h","u","d","d","l","e","s"," ","t","o","g",
      "e","t","h","e","r","."," ","M","i","k","e",":"," ","'","T","h","i","s"," ","i","s",
      " ","a"," ","t","o","u","g","h"," ","o","n","e",".","'"," ","D","u","s","t","i","n",
      ":"," ","'","W","e"," ","n","e","e","d"," ","m","o","r","e"," ","i","n","f","o","r",
      "m","a","t","i","o","n",".","'">>

Demogorgon1Head ==
    <<"T","h","e"," ","D","e","m","o","g","o","r","g","o","n"," ","t","i","l","t","s"," ",
      "i","t","s"," ","h","e","a","d","."," ","I","t"," ","s","e","e","m","s"," ","c","o",
      "n","f","u","s","e","d"," ","b","y"," ","'">>

Demogorgon1Tail ==
    <<"'","."," ","P","e","r","h","a","p","s"," ","t","h","e"," ","i","s","s","u","e"," ",
      "i","s"," ","t","h","a","t"," ","y","o","u","'","r","e"," ","t","h","i","n","k","i",
      "n","g"," ","i","n"," ","t","h","r","e","e"," ","d","i","m","e","n","s","i","o","n",
      "s","?">>

Demogorgon2 ==
    <<"T","h","e"," ","D","e","m","o","g","o","r","g","o","n"," ","m","a","k","e","s"," ",
      "a"," ","s","o","u","n","d"," ","t","h","a","t"," ","m","i","g","h","t"," ","b","e",
      " ","a","g","r","e","e","m","e","n","t","."," ","I","t"," ","s","u","g","g","e","s",
      "t","s"," ","t","h","a","t"," ","t","h","e"," ","p","r","o","b","l","e","m"," ","m",
      "i","g","h","t"," ","b","e"," ","t","e","m","p","o","r","a","l"," ","-"," ","t","h",
      "i","n","g","s"," ","w","o","r","k"," ","d","i","f","f","e","r","e","n","t","l","y",
      " ","i","n"," ","t","h","e"," ","U","p","s","i","d","e"," ","D","o","w","n","'","s",
      " ","t","i","m","e",".">>

Demogorgon3Head ==
    <<"T","h","e"," ","D","e","m","o","g","o","r","g","o","n"," ","a","p","p","e","a","r",
      "s"," ","t","o"," ","b","e"," ","e","a","t","i","n","g"," ","s","o","m","e","t","h",
      "i","n","g","."," ","I","t"," ","d","o","e","s","n","'","t"," ","s","e","e","m"," ",
      "t","o"," ","u","n","d","e","r","s","t","a","n","d"," ","t","h","e"," ","c","o","n",
      "c","e","p","t"," ","o","f"," ","'">>

Demogorgon3Tail ==
    <<"'"," ","-"," ","m","a","y","b","e"," ","c","o","n","s","i","s","t","e","n","c","y",
      " ","i","s","n","'","t"," ","a"," ","p","r","i","o","r","i","t","y"," ","t","h","e",
      "r","e","?">>

Spell1Head ==
    <<"T","r","y"," ","c","h","a","n","t","i","n","g"," ","'","B","e","c","m","a"," ","B",
      "e","c","m","a"," ","B","e","c","m","a","'"," ","t","h","r","e","e"," ","t","i","m",
      "e","s"," ","w","h","i","l","e"," ","h","o","l","d","i","n","g"," ","a"," ","W","a",
      "l","k","m","a","n","."," ","T","h","i","s"," ","m","i","g","h","t"," ","r","e","c",
      "a","l","i","b","r","a","t","e"," ","t","h","e"," ","i","n","t","e","r","d","i","m",
      "e","n","s","i","o","n","a","l"," ","f","r","e","q","u","e","n","c","i","e","s"," ",
      "r","e","l","a","t","e","d"," ","t","o",":"," ">>

Spell2Head ==
    <<"C","r","e","a","t","e"," ","a"," ","s","a","l","t"," ","c","i","r","c","l","e"," ",
      "a","n","d"," ","p","l","a","c","e"," ","a"," ","c","o","m","p","a","s","s"," ","i",
      "n"," ","t","h","e"," ","c","e","n","t","e","r","."," ","T","h","e"," ","m","a","g",
      "n","e","t","i","c"," ","a","n","o","m","a","l","i","e","s"," ","m","i","g","h","t",
      " ","h","e","l","p"," ","s","t","a","b","i","l","i","z","e",":"," ">>

Spell3Head ==
    <<"P","l","a","y"," ","'","R","u","n","n","i","n","g"," ","U","p"," ","T","h","a","t",
      " ","H","i","l","l","'"," ","b","a","c","k","w","a","r","d","s"," ","a","t"," ","t",
      "h","e"," ","e","x","a","c","t"," ","l","o","c","a","t","i","o","n"," ","o","f"," ",
      "t","h","e"," ","i","s","s","u","e","."," ","T","h","e"," ","t","e","m","p","o","r",
      "a","l"," ","r","e","s","o","n","a","n","c","e"," ","c","o","u","l","d"," ","f","i",
      "x",":"," ">>

Spell4Head ==
    <<"G","a","t","h","e","r"," ","t","h","r","e","e"," ","i","t","e","m","s",":"," ","a",
      " ","l","i","g","h","t","e","r",","," ","a"," ","c","o","m","p","a","s","s",","," ",
      "a","n","d"," ","s","o","m","e","t","h","i","n","g"," ","p","e","r","s","o","n","a",
      "l","."," ","A","r","r","a","n","g","e"," ","t","h","e","m"," ","i","n"," ","a"," ",
      "t","r","i","a","n","g","l","e"," ","w","h","i","l","e"," ","t","h","i","n","k","i",
      "n","g"," ","a","b","o","u","t",":"," ">>

Spell4Tail ==
    <<".">>

Newline ==
    <<"\n">>

\* the pieces text arguments are built from
Pieces ==
    {<<"p","o","r","t">>,
     <<"a","l">>,
     <<"M","o","n","s","t","e","r","s">>,
     <<"P","S","Y","C","H","I","C","S">>,
     <<"e","l","e","c","t","r","i","c","i","t","y">>,
     <<"k","i","d","s"," ">>}

RECURSIVE TextsUpTo(_)
TextsUpTo(n) ==
    IF n = 0 THEN {<<>>}
    ELSE LET shorter == TextsUpTo(n - 1)
         IN  shorter \cup {t \o p : t \in shorter, p \in Pieces}

\* the text arguments a caller may pass
Texts == TextsUpTo(MaxPieces)

\* the creativity_level arguments a caller may pass ("medium" is also the default)
Levels == {"low", "medium", "high", "extreme"}

-----------------------------------------------------------------------------
(* The tool bodies *)

\* for key, value in mapping.items(): if key in lowered: return value
\* followed by the return after the loop
RECURSIVE LastMatch(_, _, _)
LastMatch(items, lowered, fallback) ==
    IF items = <<>> THEN fallback
    ELSE IF StrIn(items[Len(items)].k, lowered) THEN items[Len(items)].v
    ELSE LastMatch(SubSeq(items, 1, Len(items) - 1), lowered, fallback)

RECURSIVE FirstMatch(_, _, _)
FirstMatch(items, lowered, fallback) ==
    IF items = <<>> THEN fallback
    ELSE IF StrIn(Head(items).k, lowered) THEN Head(items).v
    ELSE FirstMatch(Tail(items), lowered, fallback)

\* f"Records don't contain specific information about '{query}', but many ..."
RecordsFallback(query) == RecordsFallbackHead \o query \o RecordsFallbackTail

check_hawkins_records(query) == FirstMatch(records, StrLower(query), RecordsFallback(query))

gather_party_wisdom(question) == FirstMatch(party_responses, StrLower(question), PartyFallback)

\* responses = [...] in consult_demogorgon
responses(complaint) ==
    <<Demogorgon1Head \o complaint \o Demogorgon1Tail,
      Demogorgon2,
      Demogorgon3Head \o complaint \o Demogorgon3Tail>>

\* spells = [...] in cast_interdimensional_spell
spells(problem) ==
    <<Spell1Head \o problem,
      Spell2Head \o problem,
      Spell3Head \o problem,
      Spell4Head \o problem \o Spell4Tail>>

\* {"low": 1, "medium": 2, "high": 3}
creativity_multiplier ==
    <<[k |-> "low", v |-> 1], [k |-> "medium", v |-> 2], [k |-> "high", v |-> 3]>>

Min(a, b) == IF a < b THEN a ELSE b

\* random.sample(population, k): the index sequences it may draw, k distinct
\* positions of the population in any order
Samples(n, k) ==
    {s \in [1..k -> 1..n] : \A i, j \in 1..k : i # j => s[i] # s[j]}

\* every text argument and every creativity_level a call may be made with
InitTools ==
    /\ usage_count = InitUsageCount
    /\ tool_sequences = <<>>
    /\ stats = <<>>
    /\ events = <<>>
    /\ op = "init"
    /\ text \in Texts
    /\ level \in Levels
    /\ result = <<>>
    /\ raised = "none"
    /\ pc = [t \in Threads |-> "idle"]
    /\ tname = [t \in Threads |-> None]
    /\ tmp = [t \in Threads |-> 0]
    /\ rpc = "idle"
    /\ racc = [total |-> 0, most |-> None]

(* consult_demogorgon(text) *)
ConsultDemogorgon ==
    /\ op = "init"
    /\ op' = "consult_demogorgon"
    /\ \E i \in DOMAIN responses(text) : result' = responses(text)[i]
    /\ raised' = "none"
    /\ UNCHANGED <<trackerVars, stats, events, text, level, threadVars>>

(* check_hawkins_records(text) *)
CheckHawkinsRecords ==
    /\ op = "init"
    /\ op' = "check_hawkins_records"
    /\ result' = check_hawkins_records(text)
    /\ raised' = "none"
    /\ UNCHANGED <<trackerVars, stats, events, text, level, threadVars>>

(* gather_party_wisdom(text) *)
GatherPartyWisdom ==
    /\ op = "init"
    /\ op' = "gather_party_wisdom"
    /\ result' = gather_party_wisdom(text)
    /\ raised' = "none"
    /\ UNCHANGED <<trackerVars, stats, events, text, level, threadVars>>

(* cast_interdimensional_spell(text, level): the subscript on line 48 raises *)
(* KeyError for a level that is no key, before anything else runs           *)
CastInterdimensionalSpell ==
    /\ op = "init"
    /\ op' = "cast_interdimensional_spell"
    /\ IF DictHas(creativity_multiplier, level)
       THEN LET multiplier == DictGet(creativity_multiplier, level)
                candidates == spells(text)
            IN  /\ \E s \in Samples(Len(candidates), Min(multiplier, Len(candidates))) :
                       result' = StrJoin(Newline, [i \in DOMAIN s |-> candidates[s[i]]])
                /\ raised' = "none"
       ELSE /\ raised' = "KeyError"
            /\ UNCHANGED result
    /\ UNCHANGED <<trackerVars, stats, events, text, level, threadVars>>

NextTools ==
    \/ ConsultDemogorgon
    \/ CheckHawkinsRecords
    \/ GatherPartyWisdom
    \/ CastInterdimensionalSpell

SpecTools == InitTools /\ [][NextTools]_vars

-----------------------------------------------------------------------------
(* Properties *)

Occurrences(seq, x) == Cardinality({i \in DOMAIN seq : seq[i] = x})

AllRegistered(seq) == \A i \in DOMAIN seq : seq[i] \in ToolNameSet

NoneRegistered(seq) == \A i \in DOMAIN seq : seq[i] \notin ToolNameSet

IndexOfTool(name) == CHOOSE i \in DOMAIN ToolNames : ToolNames[i] = name

\* the objects a returned statistics dict shows through its two references
SnapshotCounts == Deref(stats[1].tool_counts)

SnapshotSequence == Deref(stats[1].tool_sequences)

\* C1: in a sequential run from a fresh tracker the counts always sum to the
\* length of tool_sequences; when every event so far named a registered tool,
\* both equal the number of events, tool_sequences is the events in arrival
\* order, and each tool's count is the number of events that named it.
C1_CountsMatchSequence ==
    /\ SumValues(usage_count) = Len(tool_sequences)
    /\ AllRegistered(events) =>
          /\ SumValues(usage_count) = Len(events)
          /\ tool_sequences = events
          /\ \A name \in ToolNameSet :
                 DictGet(usage_count, name) = Occurrences(events, name)

C1_Witness ==
    /\ AllRegistered(events)
    /\ Len(events) >= 3
    /\ \E a, b \in ToolNameSet :
          /\ a # b
          /\ Occurrences(events, a) = 2
          /\ Occurrences(events, b) = 1
          /\ events[1] = a
          /\ events[2] = b

\* C2: once every concurrent caller has returned from on_tool_start, each
\* tool's count equals the number of events that named it, as it would after
\* processing the same events one after another (no increment is lost).
C2_NoLostUpdate ==
    (\A t \in Threads : pc[t] = "idle") =>
        \A name \in ToolNameSet :
            DictGet(usage_count, name) = Occurrences(events, name)

\* C3: a get_statistics call that runs concurrently with on_tool_start calls
\* returns a dict whose total_tool_calls equals the length of the
\* tool_sequences it returns.
C3_SnapshotConsistent ==
    [][(rpc = "return" /\ rpc' = "idle") =>
           stats'[1].total_tool_calls = Len(SnapshotSequence')]_vars

\* C4: the key set of usage_count is the set of registered tool names in every
\* state, and an on_tool_start event whose name is not a key (a name that is no
\* tool, or no name at all, read as "unknown") raises nothing and leaves
\* usage_count and tool_sequences as they were.
C4_UnknownNameIgnored ==
    /\ [](DictKeys(usage_count) = ToolNameSet)
    /\ [][(events' # events /\ ~DictHas(usage_count, events'[Len(events')])) =>
              /\ raised' = "none"
              /\ usage_count' = usage_count
              /\ tool_sequences' = tool_sequences]_vars

C4_Witness ==
    /\ op = "on_tool_start"
    /\ raised = "none"
    /\ Len(events) >= 3
    /\ events[1] \in ToolNameSet
    /\ events[2] = "z"
    /\ events[3] = "unknown"
    /\ tool_sequences = <<events[1]>>

\* C5 as stated: a statistics dict returned by a tracker that has accepted no
\* event has total_tool_calls 0, most_used None and an empty tool_sequences.
C5_EmptyStatisticsNone ==
    (stats # <<>> /\ NoneRegistered(events)) =>
        /\ stats[1].total_tool_calls = 0
        /\ stats[1].most_used = None
        /\ SnapshotSequence = <<>>

\* C5 as amended: a statistics dict returned by a tracker that has accepted no
\* event has total_tool_calls 0 and an empty tool_sequences; most_used is None
\* only for an empty tool list, and otherwise the first tool of the list.
C5_EmptyStatisticsFirstTool ==
    (stats # <<>> /\ NoneRegistered(events)) =>
        /\ stats[1].total_tool_calls = 0
        /\ stats[1].most_used = IF ToolNames = <<>> THEN None ELSE ToolNames[1]
        /\ SnapshotSequence = <<>>

C5_Witness ==
    /\ op = "get_statistics"
    /\ stats # <<>>
    /\ events # <<>>
    /\ NoneRegistered(events)

\* C6: what a returned statistics dict shows as tool_counts and tool_sequences
\* does not change while the caller holds it, whatever is applied to the tracker
\* afterwards, and get_statistics leaves the tracker's state unchanged.
C6_StatisticsAreCopies ==
    [][/\ (stats # <<>> /\ stats' = stats) =>
              /\ SnapshotCounts' = SnapshotCounts
              /\ SnapshotSequence' = SnapshotSequence
       /\ op' = "get_statistics" => UNCHANGED trackerVars]_vars

\* C7: most_used of a statistics dict is a tool whose count is the maximum of
\* all counts, and no tool earlier in the tool list has that count, whatever
\* the order in which the events arrived.
C7_MostUsedFirstMaximum ==
    op = "get_statistics" =>
        LET most == stats[1].most_used IN
        /\ most \in ToolNameSet
        /\ \A name \in ToolNameSet :
               DictGet(usage_count, name) <= DictGet(usage_count, most)
        /\ \A i \in DOMAIN ToolNames :
               i < IndexOfTool(most) =>
                   DictGet(usage_count, ToolNames[i]) < DictGet(usage_count, most)

C7_Witness ==
    /\ op = "get_statistics"
    /\ Len(events) >= 2
    /\ events[1] \in ToolNameSet
    /\ events[1] # stats[1].most_used
    /\ DictGet(usage_count, events[1]) = DictGet(usage_count, stats[1].most_used)

\* C8: cast_interdimensional_spell called with a creativity_level outside
\* low, medium, high ends in InvalidParameter, returns nothing and leaves the
\* tracker's counts and sequence unchanged.
C8_InvalidLevelIsInvalidParameter ==
    (op = "cast_interdimensional_spell" /\ level \notin {"low", "medium", "high"}) =>
        /\ raised = "InvalidParameter"
        /\ result = <<>>
        /\ usage_count = InitUsageCount
        /\ tool_sequences = <<>>

\* a and b are the same letter up to case
SameLetter(a, b) ==
    \/ a = b
    \/ \E n \in DOMAIN UpperLetters : {a, b} = {UpperLetters[n], LowerLetters[n]}

\* key occurs in s as a case-insensitive substring
CaselessIn(key, s) ==
    \E i \in 0..(Len(s) - Len(key)) :
        \A j \in 1..Len(key) : SameLetter(s[i + j], key[j])

\* the value of the first entry of mapping whose key occurs in s, if there is one
FirstKeywordIs(mapping, s, value) ==
    \E i \in DOMAIN mapping :
        /\ CaselessIn(mapping[i].k, s)
        /\ \A j \in 1..(i - 1) : ~CaselessIn(mapping[j].k, s)
        /\ value = mapping[i].v

NoKeyword(mapping, s) == \A i \in DOMAIN mapping : ~CaselessIn(mapping[i].k, s)

KeywordOrder(mapping) ==
    [i \in DOMAIN mapping |-> mapping[i].k] =
        <<KeyPortal, KeyMonsters, KeyPsychics, KeyElectricity>>

\* C9 as stated: each keyword tool returns the response of the first keyword, in
\* the order portal, monsters, psychics, electricity, that occurs in the input
\* as a case-insensitive substring, and otherwise a response that contains the
\* input.
C9_KeywordToolsEchoInput ==
    /\ KeywordOrder(records) /\ KeywordOrder(party_responses)
    /\ op = "check_hawkins_records" =>
          IF NoKeyword(records, text) THEN StrIn(text, result)
          ELSE FirstKeywordIs(records, text, result)
    /\ op = "gather_party_wisdom" =>
          IF NoKeyword(party_responses, text) THEN StrIn(text, result)
          ELSE FirstKeywordIs(party_responses, text, result)

\* C9 as amended: as stated when a keyword occurs; when none occurs,
\* check_hawkins_records returns a response that contains the input and
\* gather_party_wisdom returns one fixed response, the same for every input.
C9_KeywordToolsFirstMatch ==
    /\ KeywordOrder(records) /\ KeywordOrder(party_responses)
    /\ op = "check_hawkins_records" =>
          IF NoKeyword(records, text) THEN StrIn(text, result)
          ELSE FirstKeywordIs(records, text, result)
    /\ op = "gather_party_wisdom" =>
          IF NoKeyword(party_responses, text) THEN result = PartyFallback
          ELSE FirstKeywordIs(party_responses, text, result)

C9_Witness ==
    /\ op = "gather_party_wisdom"
    /\ CaselessIn(KeyMonsters, text)
    /\ CaselessIn(KeyPsychics, text)
    /\ text[1] = "P"
    /\ result = PartyMonsters

====
